---- MODULE Spec2Model ----
(***************************************************************************)
(* Model of the resource-estimation sample notebooks:                      *)
(*   - the Q# program IsingModel2DSim (fourth-order Trotter-Suzuki         *)
(*     simulation of the 2D Ising model) and its helpers,                  *)
(*   - the Python function dashboard.get_row (result formatting),          *)
(*   - the Python functions resource_estimation_job_from_qir and           *)
(*     resource_estimation_job_from_logical_counts.                        *)
(*                                                                         *)
(* Numbers.  An angle of the circuit is a real number of the form          *)
(* (a + b*p) * u / 2, where p = 1/(4 - 4^(1/3)) is irrational, u is the    *)
(* time quantum in which totTime and dt are counted, and a, b are          *)
(* integers.  Since 1 and p are linearly independent over the rationals,   *)
(* the pair <<a, b>> determines the angle and the angle determines the     *)
(* pair; angles are modelled by these pairs.                               *)
(***************************************************************************)
EXTENDS Integers, Sequences, FiniteSets, TLC

VARIABLES pc,        \* position of the program that is running
          N, J, g, totTime, dt, eps, noops,   \* arguments of IsingModel2DSim
          seqA, seqB, \* the two sequences returned by SetSequences
          i,         \* loop variable of the product-formula loop
          m,         \* loop variable of the NoOps loop
          ops,       \* the operations emitted so far (the circuit)
          termStart, \* Len(ops) when the latest loop iteration began
          terms,     \* number of loop iterations (exponential terms) done
          prevOps,   \* the circuit of the previous run (<<>> in the first)
          prevArgs,  \* eps and noops of the previous run (None in the first)
          runs,      \* number of runs of IsingModel2DSim started
          result,    \* get_row: the result record given to get_row
          data,      \* get_row: the row get_row returned, or the error it raised
          provider, bitcode, kwargs,  \* arguments of resource_estimation_job_from_qir
          job,       \* the AzureQuantumJob it returned
          counts,    \* the counts given to resource_estimation_job_from_logical_counts
          ir         \* the QIR program it built

isingVars == <<N, J, g, totTime, dt, eps, noops, seqA, seqB, i, m, ops,
               termStart, terms, prevOps, prevArgs, runs>>

rowVars == <<result, data>>
jobVars == <<provider, bitcode, kwargs, job, counts, ir>>

vars == <<pc, isingVars, rowVars, jobVars>>

None == "none"

----------------------------------------------------------------------------
(* Bounds of the model *)
MaxN == 3
MaxTotTime == 2
MaxDt == 2
MaxNoops == 2

JSet == {1, 2}
gSet == {3}
epsSet == {1, 2}

----------------------------------------------------------------------------
(* Arithmetic on angles <<a, b>> = (a + b*p) * u / 2 *)
Zero == <<0, 0>>
PMul(k, x) == <<k * x[1], k * x[2]>>
PSub(x, y) == <<x[1] - y[1], x[2] - y[2]>>
PAdd(x, y) == <<x[1] + y[1], x[2] + y[2]>>
PHalf(x) == <<x[1] \div 2, x[2] \div 2>>
\* the double 1.0 and the double p, before the multiplication by dt
One == <<2, 0>>
P == <<0, 2>>

\* Ceiling(a / b) for b > 0
Ceiling(a, b) == (a + b - 1) \div b

----------------------------------------------------------------------------
(* Q# helpers *)

\* a plausible slip: row-major numbering, every row left to right
GetQubitIndexRowMajor(row, col, n) == col + n * row

GetQubitIndex(row, col, n) ==
    IF row % 2 = 0 THEN col + n * row
                   ELSE (n - 1 - col) + n * row

\* a plausible slip: the middle B-term gets the factor of the A-terms next to it
ValuesWrongMiddle(p, dt_, J_, g_) == <<
    PMul(-J_ * dt_, p),
    PMul(g_ * dt_, p),
    PMul(-J_ * dt_, p),
    PMul(g_ * dt_, p),
    PHalf(PMul(-J_ * dt_, PSub(One, PMul(3, p)))),
    PMul(g_ * dt_, PSub(One, PMul(3, p))),
    PHalf(PMul(-J_ * dt_, PSub(One, PMul(3, p)))),
    PMul(g_ * dt_, p),
    PMul(-J_ * dt_, p),
    PMul(g_ * dt_, p) >>

\* the array `values` of SetSequences
Values(p, dt_, J_, g_) == <<
    PMul(-J_ * dt_, p),
    PMul(g_ * dt_, p),
    PMul(-J_ * dt_, p),
    PMul(g_ * dt_, p),
    PHalf(PMul(-J_ * dt_, PSub(One, PMul(3, p)))),
    PMul(g_ * dt_, PSub(One, PMul(4, p))),
    PHalf(PMul(-J_ * dt_, PSub(One, PMul(3, p)))),
    PMul(g_ * dt_, p),
    PMul(-J_ * dt_, p),
    PMul(g_ * dt_, p) >>

SetSequences(len, p, dt_, J_, g_) ==
    LET values == Values(p, dt_, J_, g_)
        edge == PHalf(PMul(-J_ * dt_, p))
        a == [k \in 1..len |->
                IF (k - 1) \in 1..(len - 2)
                THEN (IF (k - 1) % 2 = 0 THEN values[((k - 1) % 10) + 1] ELSE Zero)
                ELSE edge]
        b == [k \in 1..len |->
                IF (k - 1) \in 1..(len - 2) /\ (k - 1) % 2 # 0
                THEN values[((k - 1) % 10) + 1] ELSE Zero]
    IN  [A |-> a, B |-> b]

Gate(name, qubits, angle) == [gate |-> name, qubits |-> qubits, angle |-> angle]

\* ApplyToEach(Rx(2.0 * theta, _), qs) on the n*n qubits
ApplyAllX(nq, theta) ==
    [k \in 1..nq |-> Gate("Rx", <<k - 1>>, PMul(2, theta))]

\* a plausible slip: the range start..2..n - 1
StepCountToEnd(start, n) == IF n - 1 < start THEN 0 ELSE ((n - 1 - start) \div 2) + 1

\* number of values of j in start..2..n - 2
StepCount(start, n) == IF n - 2 < start THEN 0 ELSE ((n - 2 - start) \div 2) + 1

ApplyDoubleZ(n, theta, dir, grp) ==
    LET start == IF grp THEN 0 ELSE 1
        cnt == StepCount(start, n)
        body(ii, jj) ==
            LET row == IF dir THEN ii ELSE jj
                col == IF dir THEN jj ELSE ii
                ind1 == GetQubitIndex(row, col, n)
                ind2 == IF dir THEN GetQubitIndex(row, col + 1, n)
                               ELSE GetQubitIndex(row + 1, col, n)
            IN  << Gate("CNOT", <<ind1, ind2>>, Zero),
                   Gate("Rz", <<ind2>>, PMul(2, theta)),
                   Gate("CNOT", <<ind1, ind2>>, Zero) >>
    IN  [k \in 1..(3 * n * cnt) |->
            LET it == (k - 1) \div 3
            IN  body(it \div cnt, start + 2 * (it % cnt))[((k - 1) % 3) + 1]]

DirGrp == << <<TRUE, TRUE>>, <<TRUE, FALSE>>, <<FALSE, TRUE>>, <<FALSE, FALSE>> >>

\* a plausible slip: the merged boundary term is forgotten
SeqLenNoLast(t) == 10 * t

SeqLen(t) == 10 * t + 1

----------------------------------------------------------------------------
(* IsingModel2DSim, one action per loop iteration *)

InitIsing ==
    /\ pc = "start"
    /\ N \in 1..MaxN
    /\ J \in JSet
    /\ g \in gSet
    /\ totTime \in 0..MaxTotTime
    /\ dt \in 1..MaxDt
    /\ eps \in epsSet
    /\ noops \in -1..MaxNoops
    /\ seqA = <<>> /\ seqB = <<>>
    /\ i = 0 /\ m = 1
    /\ ops = <<>> /\ termStart = 0 /\ terms = 0
    /\ prevOps = <<>> /\ prevArgs = None /\ runs = 1
    /\ result = None /\ data = None
    /\ provider = None /\ bitcode = None /\ kwargs = None /\ job = None
    /\ counts = None /\ ir = None

\* a plausible slip: the step size of the sequences is scaled by eps
SetupUsesEps ==
    /\ pc = "start"
    /\ LET t == Ceiling(totTime, dt)
           s == SetSequences(SeqLen(t), P, dt * eps, J, g)
       IN  seqA' = s.A /\ seqB' = s.B
    /\ i' = 0
    /\ pc' = "loop"
    /\ UNCHANGED <<N, J, g, totTime, dt, eps, noops, m, ops, termStart, terms,
                   prevOps, prevArgs, runs>>
    /\ UNCHANGED <<rowVars, jobVars>>

\* lines 256-264: allocation, p, t, seqLen and the call of SetSequences
Setup ==
    /\ pc = "start"
    /\ LET t == Ceiling(totTime, dt)
           s == SetSequences(SeqLen(t), P, dt, J, g)
       IN  seqA' = s.A /\ seqB' = s.B
    /\ i' = 0
    /\ pc' = "loop"
    /\ UNCHANGED <<N, J, g, totTime, dt, eps, noops, m, ops, termStart, terms,
                   prevOps, prevArgs, runs>>
    /\ UNCHANGED <<rowVars, jobVars>>

\* an even iteration of the loop: one ApplyAllX layer
StepX ==
    /\ pc = "loop"
    /\ i <= Len(seqA) - 1
    /\ i % 2 = 0
    /\ ops' = ops \o ApplyAllX(N * N, seqA[i + 1])
    /\ termStart' = Len(ops)
    /\ terms' = terms + 1
    /\ i' = i + 1
    /\ UNCHANGED <<pc, N, J, g, totTime, dt, eps, noops, seqA, seqB, m,
                   prevOps, prevArgs, runs>>
    /\ UNCHANGED <<rowVars, jobVars>>

\* an odd iteration of the loop: the four ApplyDoubleZ calls
StepZZ ==
    /\ pc = "loop"
    /\ i <= Len(seqA) - 1
    /\ i % 2 # 0
    /\ ops' = ops \o ApplyDoubleZ(N, seqB[i + 1], DirGrp[1][1], DirGrp[1][2])
                  \o ApplyDoubleZ(N, seqB[i + 1], DirGrp[2][1], DirGrp[2][2])
                  \o ApplyDoubleZ(N, seqB[i + 1], DirGrp[3][1], DirGrp[3][2])
                  \o ApplyDoubleZ(N, seqB[i + 1], DirGrp[4][1], DirGrp[4][2])
    /\ termStart' = Len(ops)
    /\ terms' = terms + 1
    /\ i' = i + 1
    /\ UNCHANGED <<pc, N, J, g, totTime, dt, eps, noops, seqA, seqB, m,
                   prevOps, prevArgs, runs>>
    /\ UNCHANGED <<rowVars, jobVars>>

\* a plausible slip: the NoOps loop runs over 0..noops
LoopExitFromZero ==
    /\ pc = "loop"
    /\ i > Len(seqA) - 1
    /\ pc' = "noops"
    /\ m' = 0
    /\ UNCHANGED <<N, J, g, totTime, dt, eps, noops, seqA, seqB, i, ops,
                   termStart, terms, prevOps, prevArgs, runs>>
    /\ UNCHANGED <<rowVars, jobVars>>

\* the product-formula loop is over
LoopExit ==
    /\ pc = "loop"
    /\ i > Len(seqA) - 1
    /\ pc' = "noops"
    /\ m' = 1
    /\ UNCHANGED <<N, J, g, totTime, dt, eps, noops, seqA, seqB, i, ops,
                   termStart, terms, prevOps, prevArgs, runs>>
    /\ UNCHANGED <<rowVars, jobVars>>

\* one iteration of `for _ in 1..noops`: Ignore(M(qs[0]))
NoOp ==
    /\ pc = "noops"
    /\ m <= noops
    /\ ops' = Append(ops, Gate("M", <<0>>, Zero))
    /\ m' = m + 1
    /\ UNCHANGED <<pc, N, J, g, totTime, dt, eps, noops, seqA, seqB, i,
                   termStart, terms, prevOps, prevArgs, runs>>
    /\ UNCHANGED <<rowVars, jobVars>>

Finish ==
    /\ pc = "noops"
    /\ m > noops
    /\ pc' = "done"
    /\ UNCHANGED <<isingVars, rowVars, jobVars>>

\* The notebook executes the same instance again with another number of
\* NoOps (and the caller may pass another eps).
Rerun ==
    /\ pc = "done"
    /\ runs = 1
    /\ prevOps' = ops
    /\ prevArgs' = [eps |-> eps, noops |-> noops]
    /\ runs' = 2
    /\ noops' \in -1..MaxNoops
    /\ eps' \in epsSet
    /\ seqA' = <<>> /\ seqB' = <<>>
    /\ i' = 0 /\ m' = 1
    /\ ops' = <<>> /\ termStart' = 0 /\ terms' = 0
    /\ pc' = "start"
    /\ UNCHANGED <<N, J, g, totTime, dt>>
    /\ UNCHANGED <<rowVars, jobVars>>

NextIsing == Setup \/ StepX \/ StepZZ \/ LoopExit \/ NoOp \/ Finish \/ Rerun

SpecIsing == InitIsing /\ [][NextIsing]_vars

----------------------------------------------------------------------------
(* Properties of IsingModel2DSim *)

Count(s, gate) == Cardinality({k \in DOMAIN s : s[k].gate = gate})

\* the least t with t * dt >= totTime, i.e. Ceiling(totTime / dt)
Steps == CHOOSE t \in 0..totTime :
            t * dt >= totTime /\ \A s \in 0..(t - 1) : s * dt < totTime

\* C1: when the product-formula loop of IsingModel2DSim is over, exactly
\* 10*t + 1 exponential terms have been applied, t = Ceiling(totTime/dt):
\* 5*t + 1 layers of X rotations on all N*N qubits and 5*t layers of ZZ
\* rotations on the 2*N*(N-1) neighbouring pairs.
C1_TermCount ==
    pc \in {"noops", "done"} =>
        /\ terms = 10 * Steps + 1
        /\ Count(ops, "Rx") = (5 * Steps + 1) * N * N
        /\ Count(ops, "Rz") = 5 * Steps * 2 * N * (N - 1)

C1_Witness == pc = "done" /\ N = 2 /\ Steps = 1 /\ terms = 11

\* the 11 time fractions of U_4, in units of dt/2
U4Terms == << <<0, 1>>, <<0, 2>>, <<0, 2>>, <<0, 2>>, <<1, -3>>, <<2, -8>>,
              <<1, -3>>, <<0, 2>>, <<0, 2>>, <<0, 2>>, <<0, 1>> >>

\* t copies of U4Terms, every two adjacent boundary terms merged into their sum
RECURSIVE Merged(_)
Merged(t) ==
    IF t = 1 THEN U4Terms
    ELSE LET r == Merged(t - 1)
         IN  SubSeq(r, 1, Len(r) - 1)
             \o << PAdd(r[Len(r)], U4Terms[1]) >>
             \o Tail(U4Terms)

\* the value SetSequences left at position k (seqA at even, seqB at odd k)
ValueAt(k) == IF k % 2 = 0 THEN seqA[k + 1] ELSE seqB[k + 1]

\* C2: for t >= 1 the value at every position 0..10*t of the sequences is a
\* coefficient (-J or g) times dt times the time fraction that the merged
\* concatenation of t copies of the expansion of U_4 has at that position.
C2_MergedFractions ==
    (pc # "start" /\ Steps >= 1) =>
        /\ Len(seqA) = 10 * Steps + 1
        /\ Len(seqB) = 10 * Steps + 1
        /\ \A k \in 0..(10 * Steps) :
              \E c \in {-J, g} : ValueAt(k) = PMul(c * dt, Merged(Steps)[k + 1])

C2_Witness == pc = "loop" /\ Steps = 2 /\ Len(seqA) = 21 /\ seqA[11] = <<0, -2 * J * dt>>

TimeFractions == { <<0, 1>>, <<0, 2>>, <<1, -3>>, <<2, -8>> }

\* C3: every angle of an X rotation is a time fraction times g, and every
\* angle of a ZZ rotation is a time fraction times -J (the gates Rx and Rz
\* are applied with twice the angle).
C3_TermsMatchHamiltonian ==
    \A k \in DOMAIN ops :
        /\ ops[k].gate = "Rx" =>
              \E f \in TimeFractions : ops[k].angle = PMul(2 * g * dt, f)
        /\ ops[k].gate = "Rz" =>
              \E f \in TimeFractions : ops[k].angle = PMul(2 * (-J) * dt, f)

\* the lattice site of the qubit with index k, snake order
SiteRow(k, n) == k \div n
SiteCol(k, n) == IF (k \div n) % 2 = 0 THEN k % n ELSE n - 1 - (k % n)
Abs(x) == IF x < 0 THEN -x ELSE x
Adjacent(a, b, n) ==
    Abs(SiteRow(a, n) - SiteRow(b, n)) + Abs(SiteCol(a, n) - SiteCol(b, n)) = 1
Neighbours(n) ==
    { {a, b} : <<a, b>> \in { q \in (0..(n * n - 1)) \X (0..(n * n - 1)) :
                                 Adjacent(q[1], q[2], n) } }

\* the operations of the latest loop iteration
LastTerm == SubSeq(ops, termStart + 1, Len(ops))
AfterZZ == pc = "loop" /\ i >= 1 /\ (i - 1) % 2 # 0

\* C4: the operations of one ZZ term are 2*N*(N-1) triples
\* CNOT(a,b); Rz(b); CNOT(a,b), whose pairs {a,b} are pairwise different and
\* are exactly the pairs of nearest neighbours of the N x N lattice.
C4_AllNeighboursOnce ==
    AfterZZ =>
        LET gs == LastTerm
            cnt == 2 * N * (N - 1)
            pair(q) == {gs[3 * q + 1].qubits[1], gs[3 * q + 1].qubits[2]}
        IN  /\ Len(gs) = 3 * cnt
            /\ \A q \in 0..(cnt - 1) :
                  /\ gs[3 * q + 1].gate = "CNOT"
                  /\ gs[3 * q + 2].gate = "Rz"
                  /\ gs[3 * q + 3] = gs[3 * q + 1]
                  /\ gs[3 * q + 2].qubits = << gs[3 * q + 1].qubits[2] >>
                  /\ gs[3 * q + 2].angle = PMul(2, seqB[i])
            /\ { pair(q) : q \in 0..(cnt - 1) } = Neighbours(N)
            /\ Cardinality({ pair(q) : q \in 0..(cnt - 1) }) = cnt

C4_Witness == AfterZZ /\ N = 3 /\ Len(LastTerm) = 36

\* C5: GetQubitIndex numbers the lattice in snake order: n*row + col on even
\* rows, growing with col, and n*row + n - 1 - col on odd rows, decreasing
\* with col.
C5_SnakeOrder ==
    \A row \in 0..(N - 1), col \in 0..(N - 1) :
        /\ row % 2 = 0 => GetQubitIndex(row, col, N) = N * row + col
        /\ row % 2 = 1 => GetQubitIndex(row, col, N) = N * row + N - 1 - col
        /\ (row % 2 = 0 /\ col < N - 1) =>
              GetQubitIndex(row, col + 1, N) > GetQubitIndex(row, col, N)
        /\ (row % 2 = 1 /\ col < N - 1) =>
              GetQubitIndex(row, col + 1, N) < GetQubitIndex(row, col, N)

\* a ZZ term on a lattice with an odd row has been emitted
C5_Witness ==
    AfterZZ /\ N = 3 /\ \E k \in DOMAIN ops : ops[k].gate = "CNOT" /\ ops[k].qubits = <<5, 4>>

Rotations(s) == SelectSeq(s, LAMBDA o : o.gate # "M")

\* C6: the run performs exactly noops measurements (none when noops <= 0),
\* all on qubit 0 and all after the last rotation, and the rotations of a
\* second run of the same instance with another noops are those of the first.
C6_NoOps ==
    /\ \A k \in DOMAIN ops : ops[k].gate = "M" =>
            /\ ops[k].qubits = <<0>>
            /\ pc \in {"noops", "done"}
            /\ \A l \in DOMAIN ops : ops[l].gate # "M" => l < k
    /\ pc = "done" =>
            /\ Count(ops, "M") = (IF noops <= 0 THEN 0 ELSE noops)
            /\ runs = 2 => Rotations(ops) = Rotations(prevOps)

C6_Witness ==
    /\ pc = "done" /\ runs = 2 /\ noops = 2 /\ N = 2
    /\ Count(ops, "M") = 2 /\ Count(prevOps, "M") = 0 /\ Count(prevOps, "Rx") > 0

----------------------------------------------------------------------------
(* dashboard.get_row                                                       *)
(*                                                                         *)
(* A runtime of one year is about 3.2 * 10^16 nanoseconds, more than an    *)
(* integer of the model checker holds.  A runtime is therefore modelled    *)
(* by its digits in the mixed-radix system of the list `units`:            *)
(*   runtime = d[1] + 1000*(d[2] + 1000*(d[3] + 1000*(d[4] + 60*(d[5]      *)
(*             + 60*(d[6] + 24*(d[7] + 365*d[8]))))))                      *)
(* with d[k] < units[k][1] for k < 8 (Python index k of the list).  After  *)
(* u - 1 divisions of the loop, runtime_formatted is the runtime in        *)
(* Units[u]: its integer part is made of the digits u..8, its fractional   *)
(* part of the digits 1..u-1.  Arithmetic is exact; the doubles of the     *)
(* source hold integers exactly up to 2^53 (about 104.2 days in            *)
(* nanoseconds), so the runtimes of the model that reach 104 days are      *)
(* whole microseconds: on these runtimes the double arithmetic of the      *)
(* source and exact arithmetic give the same strings.                      *)

MaxYears == 2

Units == << [name |-> "nanosecs", factor |-> 1],
            [name |-> "microsecs", factor |-> 1000],
            [name |-> "millisecs", factor |-> 1000],
            [name |-> "secs", factor |-> 1000],
            [name |-> "mins", factor |-> 60],
            [name |-> "hours", factor |-> 60],
            [name |-> "days", factor |-> 24],
            [name |-> "years", factor |-> 365] >>

NUnits == Len(Units)

\* runtime / (units[1][1] * ... * units[u-1][1]) < 1.0
LessThanOne(d, u) == \A k \in u..NUnits : d[k] = 0

\* integer part of the runtime in Units[u]
RECURSIVE IntPart(_, _)
IntPart(d, u) ==
    IF u = NUnits THEN d[u]
    ELSE IF LessThanOne(d, u + 1) THEN d[u]
    ELSE d[u] + Units[u + 1].factor * IntPart(d, u + 1)

\* the fractional part of the runtime in Units[u] compared with 1/2:
\* -1 (less), 0 (equal), 1 (greater)
RECURSIVE CmpHalf(_, _)
CmpHalf(d, u) ==
    IF u = 1 THEN -1
    ELSE LET f == Units[u].factor
             h == f \div 2
             top == d[u - 1]
         IN  IF top > h THEN 1
             ELSE IF top < h THEN -1
             ELSE IF f % 2 = 0
                  THEN (IF \A k \in 1..(u - 2) : d[k] = 0 THEN 0 ELSE 1)
                  ELSE CmpHalf(d, u - 1)

\* Python's round(x) of the runtime in Units[u]: nearest integer, ties to even
Round(d, u) ==
    LET ip == IntPart(d, u)
        c == CmpHalf(d, u)
    IN  IF c > 0 \/ (c = 0 /\ ip % 2 = 1) THEN ip + 1 ELSE ip

\* a plausible slip: the name of the unit the loop is at, not the one before it
RECURSIVE FormatRuntimeNextUnit(_, _)
FormatRuntimeNextUnit(d, idx) ==
    IF idx > NUnits - 1
    THEN << Round(d, NUnits), Units[NUnits].name >>
    ELSE IF LessThanOne(d, idx + 1)
         THEN << Round(d, idx) % Units[idx + 1].factor, Units[idx + 1].name >>
         ELSE FormatRuntimeNextUnit(d, idx + 1)

\* The loop `for idx in range(1, len(units))` from iteration idx on, and the
\* special case for years after it.  The formatted string "<n> <unit>" is
\* the pair <<n, unit>>.
RECURSIVE FormatRuntime(_, _)
FormatRuntime(d, idx) ==
    IF idx > NUnits - 1
    THEN << Round(d, NUnits), Units[NUnits].name >>
    ELSE IF LessThanOne(d, idx + 1)
         THEN << Round(d, idx) % Units[idx + 1].factor, Units[idx].name >>
         ELSE FormatRuntime(d, idx + 1)

\* a / b rounded to the nearest integer (a >= 0, b > 0), ties to even
RoundDiv(a, b) ==
    LET q == a \div b
        r2 == 2 * (a % b)
    IN  IF r2 > b \/ (r2 = b /\ q % 2 = 1) THEN q + 1 ELSE q

RECURSIVE Exp10(_)
Exp10(x) == IF x < 10 THEN 0 ELSE 1 + Exp10(x \div 10)

RECURSIVE Pow10(_)
Pow10(e) == IF e = 0 THEN 1 ELSE 10 * Pow10(e - 1)

\* f"{x:.1e}" of an integer x >= 0: mantissa in tenths and exponent
FormatSci(x) ==
    IF x = 0 THEN [mant |-> 0, exp |-> 0]
    ELSE LET e == Exp10(x)
             mt == IF e = 0 THEN 10 * x ELSE RoundDiv(x, Pow10(e - 1))
         IN  IF mt = 100 THEN [mant |-> 10, exp |-> e + 1]
                         ELSE [mant |-> mt, exp |-> e]

\* get_row(result): the row of eight values, or the exception it ends in
get_row(res) ==
    IF res.physicalQubits = 0
    THEN [error |-> "ZeroDivisionError", value |-> <<>>]
    ELSE LET logical_qubits == res.algorithmicLogicalQubits
             logical_depth == res.logicalDepth
             num_tstates == res.numTstates
             code_distance == res.codeDistance
             num_tfactories == res.numTfactories
             \* f"{tfactory_fraction:.1f}%": tenths of a percent
             tfactory_fraction_formatted ==
                 << RoundDiv(1000 * res.physicalQubitsForTfactories, res.physicalQubits), "%" >>
             \* f"{physical_qubits / 1e6:.2f}M": hundredths of a million
             physical_qubits_formatted == << RoundDiv(res.physicalQubits, 10000), "M" >>
             runtime_formatted == FormatRuntime(res.runtime, 1)
         IN  [error |-> "",
              value |-> << logical_qubits, FormatSci(logical_depth),
                           FormatSci(num_tstates), code_distance, num_tfactories,
                           tfactory_fraction_formatted, physical_qubits_formatted,
                           runtime_formatted >>]

\* digits of the runtimes of the model: the ends, the middle and the
\* neighbours of the ends of every digit range
Digits1000 == {0, 1, 500, 999}
Digits60 == {0, 1, 30, 59}
Digits24 == {0, 12, 23}
Digits365 == {0, 182, 364}

\* physicalQubitsForTfactories and physicalQubits
QubitCounts == { <<0, 0>>, <<19600, 33152>>, <<345678, 1234567>> }

InitRow ==
    /\ pc = "start"
    /\ \E d1 \in Digits1000, d2 \in Digits1000, d3 \in Digits1000,
          d4 \in Digits60, d5 \in Digits60, d6 \in Digits24, d7 \in Digits365,
          d8 \in 0..MaxYears, q \in QubitCounts :
         /\ (d7 >= 104 \/ d8 >= 1) => d1 = 0
         /\ result = [algorithmicLogicalQubits |-> 230,
                   logicalDepth |-> 1250000,
                   numTstates |-> 995000,
                   codeDistance |-> 9,
                   numTfactories |-> 15,
                   physicalQubitsForTfactories |-> q[1],
                   physicalQubits |-> q[2],
                   runtime |-> <<d1, d2, d3, d4, d5, d6, d7, d8>>]
    /\ data = None
    /\ N = 0 /\ J = 0 /\ g = 0 /\ totTime = 0 /\ dt = 0 /\ eps = 0 /\ noops = 0
    /\ seqA = <<>> /\ seqB = <<>> /\ i = 0 /\ m = 0
    /\ ops = <<>> /\ termStart = 0 /\ terms = 0 /\ prevOps = <<>> /\ prevArgs = None /\ runs = 0
    /\ provider = None /\ bitcode = None /\ kwargs = None /\ job = None
    /\ counts = None /\ ir = None

\* get_row returns a row
GetRowReturn ==
    /\ pc = "start"
    /\ get_row(result).error = ""
    /\ data' = get_row(result)
    /\ pc' = "done"
    /\ UNCHANGED <<result, isingVars, jobVars>>

\* get_row ends in an exception
GetRowRaise ==
    /\ pc = "start"
    /\ get_row(result).error # ""
    /\ data' = get_row(result)
    /\ pc' = "raised"
    /\ UNCHANGED <<result, isingVars, jobVars>>

NextRow == GetRowReturn \/ GetRowRaise

SpecRow == InitRow /\ [][NextRow]_vars

----------------------------------------------------------------------------
(* Properties of get_row *)

\* the runtime is at least one nanosecond
Positive(d) == \E k \in 1..NUnits : d[k] # 0

\* the largest unit in which the runtime is at least 1
LargestUnit(d) == CHOOSE u \in 1..NUnits : d[u] # 0 /\ \A k \in (u + 1)..NUnits : d[k] = 0

UnitNames == { Units[u].name : u \in 1..NUnits }

C8_RoundedNotZero ==
    (pc = "done" /\ Positive(result.runtime)) =>
        /\ data.value[8][1] = Round(result.runtime, LargestUnit(result.runtime))
        /\ data.value[8][1] >= 1

\* C9: get_row returns a row of eight values for every result record with
\* non-negative values, physicalQubits = 0 and runtime = 0 included.
C9_Total ==
    pc # "start" => (pc = "done" /\ data.error = "" /\ Len(data.value) = 8)

----------------------------------------------------------------------------
(* resource_estimation_job_from_qir *)

\* a plausible slip: kwargs.get("name", "QIR job"), which leaves the key in
PopKeepsKey(d, key, default) ==
    [value |-> IF key \in DOMAIN d THEN d[key] ELSE default,
     rest |-> d]

\* dict.pop(key, default): the value returned and the dictionary left
Pop(d, key, default) ==
    [value |-> IF key \in DOMAIN d THEN d[key] ELSE default,
     rest |-> [k \in (DOMAIN d) \ {key} |-> d[k]]]

\* a plausible slip: the keyword arguments are spread into the constructor
\* call (**kwargs), so that a keyword 'target' replaces the backend's name
JobFromQirSpreadsKwargs(prov, bc, kw) ==
    LET backend == prov["microsoft.estimator"]
        popped == Pop(kw, "name", "QIR job")
        config == backend.configuration
    IN  [backend |-> backend,
         target |-> IF "target" \in DOMAIN kw THEN kw["target"] ELSE backend.name,
         name |-> popped.value,
         input_data |-> bc,
         blob_name |-> config.azure.blob_name,
         content_type |-> config.azure.content_type,
         provider_id |-> config.azure.provider_id,
         input_data_format |-> "qir.v1",
         output_data_format |-> config.azure.output_data_format,
         input_params |-> popped.rest,
         metadata |-> <<>>]

\* the AzureQuantumJob is the record of the arguments of its constructor
resource_estimation_job_from_qir(prov, bc, kw) ==
    LET backend == prov["microsoft.estimator"]
        popped == Pop(kw, "name", "QIR job")
        name == popped.value
        config == backend.configuration
        blob_name == config.azure.blob_name
        content_type == config.azure.content_type
        provider_id == config.azure.provider_id
        output_data_format == config.azure.output_data_format
    IN  [backend |-> backend,
         target |-> backend.name,
         name |-> name,
         input_data |-> bc,
         blob_name |-> blob_name,
         content_type |-> content_type,
         provider_id |-> provider_id,
         input_data_format |-> "qir.v1",
         output_data_format |-> output_data_format,
         input_params |-> popped.rest,
         metadata |-> <<>>]

\* keyword arguments of the model and their values
Keys == {"name", "items", "errorBudget", "target"}
Vals == {"v1", "v2"}
KwargsSet == UNION { [D -> Vals] : D \in SUBSET Keys }

EstimatorConfigs ==
    { [azure |-> [blob_name |-> "inputData", content_type |-> "application/json",
                  provider_id |-> "microsoft-qc",
                  output_data_format |-> "microsoft.resource-estimates.v1"]],
      [azure |-> [blob_name |-> "blob2", content_type |-> "application/x-qir.v1",
                  provider_id |-> "microsoft", output_data_format |-> "format2"]] }

OtherConfig ==
    [azure |-> [blob_name |-> "inputData", content_type |-> "application/json",
                provider_id |-> "ionq", output_data_format |-> "ionq.quantum-results.v1"]]

InitJob ==
    /\ pc = "start"
    /\ \E c \in EstimatorConfigs :
         provider = [b \in {"microsoft.estimator", "ionq.simulator"} |->
                       [name |-> b,
                        configuration |-> IF b = "microsoft.estimator" THEN c ELSE OtherConfig]]
    /\ bitcode \in {"bitcode1", "bitcode2"}
    /\ kwargs \in KwargsSet
    /\ job = None
    /\ counts = None /\ ir = None
    /\ result = None /\ data = None
    /\ N = 0 /\ J = 0 /\ g = 0 /\ totTime = 0 /\ dt = 0 /\ eps = 0 /\ noops = 0
    /\ seqA = <<>> /\ seqB = <<>> /\ i = 0 /\ m = 0
    /\ ops = <<>> /\ termStart = 0 /\ terms = 0 /\ prevOps = <<>> /\ prevArgs = None /\ runs = 0

JobFromQir ==
    /\ pc = "start"
    /\ job' = resource_estimation_job_from_qir(provider, bitcode, kwargs)
    /\ pc' = "done"
    /\ UNCHANGED <<provider, bitcode, kwargs, counts, ir, isingVars, rowVars>>

NextJob == JobFromQir

SpecJob == InitJob /\ [][NextJob]_vars

----------------------------------------------------------------------------
(* Properties of resource_estimation_job_from_qir *)

\* C10: the job is named by the keyword argument 'name' when it is given and
\* 'QIR job' otherwise; input_params holds exactly the other keyword
\* arguments, each with its value, and never the key 'name'.
C10_NameAndParams ==
    pc = "done" =>
        /\ job.name = (IF "name" \in DOMAIN kwargs THEN kwargs["name"] ELSE "QIR job")
        /\ "name" \notin DOMAIN job.input_params
        /\ DOMAIN job.input_params = (DOMAIN kwargs) \ {"name"}
        /\ \A k \in DOMAIN job.input_params : job.input_params[k] = kwargs[k]

C10_Witness ==
    /\ pc = "done" /\ DOMAIN kwargs = {"name", "items", "errorBudget"}
    /\ job.name = "v2" /\ DOMAIN job.input_params = {"items", "errorBudget"}

\* C13: whatever the keyword arguments, input_data is the bitcode argument,
\* input_data_format is 'qir.v1', metadata is empty, the target is the
\* backend 'microsoft.estimator', and blob_name, content_type, provider_id
\* and output_data_format are those of that backend's configuration.
C13_PayloadUntouched ==
    pc = "done" =>
        LET azure == provider["microsoft.estimator"].configuration.azure
        IN  /\ job.input_data = bitcode
            /\ job.input_data_format = "qir.v1"
            /\ job.metadata = <<>>
            /\ job.target = "microsoft.estimator"
            /\ job.backend = provider["microsoft.estimator"]
            /\ job.blob_name = azure.blob_name
            /\ job.content_type = azure.content_type
            /\ job.provider_id = azure.provider_id
            /\ job.output_data_format = azure.output_data_format

\* a keyword argument named like a field of the job is passed
C13_Witness ==
    /\ pc = "done" /\ "target" \in DOMAIN kwargs /\ bitcode = "bitcode2"
    /\ job.target = "microsoft.estimator" /\ job.input_params["target"] = kwargs["target"]
    /\ job.blob_name = "blob2"

----------------------------------------------------------------------------
(* resource_estimation_job_from_logical_counts *)

\* the parameters with default value 0, in the order of the signature
CountNames == << "qubit_count", "t_count", "rotation_count", "rotation_depth",
                 "ccz_count", "measurement_count" >>

\* the value of a parameter: the argument given, or the default 0
Arg(given, name) == IF name \in DOMAIN given THEN given[name] ELSE 0

Call(res, callee, args) == [result |-> res, callee |-> callee, args |-> args]

\* a plausible slip: rotation_depth and rotation_count change places
BuildIRSwapped(given) ==
    [entry |-> "Project__Program",
     declares |-> << "__quantum__rt__qubit_allocate_array",
                     "__quantum__rt__qubit_release_array",
                     "__quantum__qis__applyunimplemented__body" >>,
     body |-> << Call("%target", "__quantum__rt__qubit_allocate_array",
                      << Arg(given, "qubit_count") >>),
                 Call("", "__quantum__qis__applyunimplemented__body",
                      << Arg(given, "t_count"), Arg(given, "rotation_depth"),
                         Arg(given, "rotation_count"), Arg(given, "ccz_count"),
                         Arg(given, "measurement_count"), "%target" >>),
                 Call("", "__quantum__rt__qubit_release_array", << "%target" >>),
                 Call("", "ret", <<>>) >>]

\* the f-string `ir`: the declarations and the instructions of the entry
\* point, every instruction with the value it defines, the function it
\* calls and its operands
BuildIR(given) ==
    [entry |-> "Project__Program",
     declares |-> << "__quantum__rt__qubit_allocate_array",
                     "__quantum__rt__qubit_release_array",
                     "__quantum__qis__applyunimplemented__body" >>,
     body |-> << Call("%target", "__quantum__rt__qubit_allocate_array",
                      << Arg(given, "qubit_count") >>),
                 Call("", "__quantum__qis__applyunimplemented__body",
                      << Arg(given, "t_count"), Arg(given, "rotation_count"),
                         Arg(given, "rotation_depth"), Arg(given, "ccz_count"),
                         Arg(given, "measurement_count"), "%target" >>),
                 Call("", "__quantum__rt__qubit_release_array", << "%target" >>),
                 Call("", "ret", <<>>) >>]

\* ir_to_bitcode(textwrap.dedent(ir)), of pyqir.generator or of pyqir: the
\* bitcode of the module that the text describes
ir_to_bitcode(text) == [bitcode_of |-> text]

CountVals == {1, 2}
CountsSet == UNION { [D -> CountVals] : D \in SUBSET { CountNames[k] : k \in DOMAIN CountNames } }

InitCounts ==
    /\ pc = "start"
    /\ \E c \in EstimatorConfigs :
         provider = [b \in {"microsoft.estimator", "ionq.simulator"} |->
                       [name |-> b,
                        configuration |-> IF b = "microsoft.estimator" THEN c ELSE OtherConfig]]
    /\ counts \in CountsSet
    /\ kwargs \in { kw \in KwargsSet : DOMAIN kw \subseteq {"name", "items"} }
    /\ ir = None /\ bitcode = None /\ job = None
    /\ result = None /\ data = None
    /\ N = 0 /\ J = 0 /\ g = 0 /\ totTime = 0 /\ dt = 0 /\ eps = 0 /\ noops = 0
    /\ seqA = <<>> /\ seqB = <<>> /\ i = 0 /\ m = 0
    /\ ops = <<>> /\ termStart = 0 /\ terms = 0 /\ prevOps = <<>> /\ prevArgs = None /\ runs = 0

\* lines 140-164: the program text and its bitcode
BuildProgram ==
    /\ pc = "start"
    /\ ir' = BuildIR(counts)
    /\ bitcode' = ir_to_bitcode(BuildIR(counts))
    /\ pc' = "built"
    /\ UNCHANGED <<provider, kwargs, job, counts, isingVars, rowVars>>

\* line 165: return resource_estimation_job_from_qir(provider, bitcode, **kwargs)
JobFromCounts ==
    /\ pc = "built"
    /\ job' = resource_estimation_job_from_qir(provider, bitcode, kwargs)
    /\ pc' = "done"
    /\ UNCHANGED <<provider, bitcode, kwargs, counts, ir, isingVars, rowVars>>

NextCounts == BuildProgram \/ JobFromCounts

SpecCounts == InitCounts /\ [][NextCounts]_vars

----------------------------------------------------------------------------
(* Properties of resource_estimation_job_from_logical_counts *)

\* the positions of the program of the job that call the function f
CallsOf(f) ==
    { k \in DOMAIN job.input_data.bitcode_of.body :
        job.input_data.bitcode_of.body[k].callee = f }

\* C11: the program of the job has exactly one allocation of an array of
\* qubit_count qubits, then exactly one call of applyunimplemented with the
\* operands t_count, rotation_count, rotation_depth, ccz_count,
\* measurement_count and the allocated array, then exactly one release of
\* that array; a count the caller omits is 0.
C11_InjectedCounts ==
    pc = "done" =>
        LET body == job.input_data.bitcode_of.body
            al == CallsOf("__quantum__rt__qubit_allocate_array")
            ap == CallsOf("__quantum__qis__applyunimplemented__body")
            re == CallsOf("__quantum__rt__qubit_release_array")
            val(name) == IF name \in DOMAIN counts THEN counts[name] ELSE 0
        IN  /\ Cardinality(al) = 1 /\ Cardinality(ap) = 1 /\ Cardinality(re) = 1
            /\ \A a \in al, b \in ap, c \in re :
                 /\ a < b /\ b < c
                 /\ body[a].args = << val("qubit_count") >>
                 /\ body[a].result # ""
                 /\ Len(body[b].args) = 6
                 /\ \A k \in 1..5 : body[b].args[k] = val(CountNames[k + 1])
                 /\ body[b].args[6] = body[a].result
                 /\ body[c].args = << body[a].result >>

\* rotation_count given, rotation_depth and t_count omitted
C11_Witness ==
    /\ pc = "done"
    /\ DOMAIN counts = {"qubit_count", "rotation_count", "ccz_count"}
    /\ counts["rotation_count"] = 2 /\ counts["qubit_count"] = 1
    /\ job.input_data.bitcode_of.body[2].args = <<0, 2, 0, counts["ccz_count"], 0, "%target">>

====
